---- MODULE Spec2Model ----
(***************************************************************************)
(* superset/views/database/forms.py: the database choices offered by the   *)
(* file-upload forms.  UploadToDatabaseForm.file_allowed_dbs is the         *)
(* query_factory of the "database" field of CsvToDatabaseForm,              *)
(* ExcelToDatabaseForm and ColumnarToDatabaseForm.  It reads the Database   *)
(* table and asks the security manager, per database, whether the user may  *)
(* upload to it.                                                            *)
(***************************************************************************)
EXTENDS Naturals, Sequences, FiniteSets

\* Number of primary keys available to Database rows.
MaxDbs == 2

\* Number of administrator changes followed along one behaviour.
MaxChanges == 3

DbIds == 1..MaxDbs

Schemas == {"sales"}

Forms == {"csv", "excel", "columnar"}

VARIABLES
    registry,      \* the Database table, in the order the query returns its rows
    can_access,    \* security manager: answer of can_access_database, per database id
    user_schemas,  \* security manager: schemas the user may access, per database id
    shown,         \* per form: what its query_factory produced for the current state
    log,           \* collaborator calls made by the most recent file_allowed_dbs call
    changes        \* administrator changes so far

vars == <<registry, can_access, user_schemas, shown, log, changes>>

----------------------------------------------------------------------------
\* Python values that reach the conditions of the filter.

PyBool(b) == [kind |-> "bool", b |-> b, items |-> {}]

PyNone == [kind |-> "none", b |-> FALSE, items |-> {}]

PyList(S) == [kind |-> "list", b |-> FALSE, items |-> S]

\* An exception raised by a collaborator, in place of a value.
PyRaise == [kind |-> "raise", b |-> FALSE, items |-> {}]

\* Truth value testing of `if x:` and `x and y`: None and False and an empty
\* collection are false.
truthy(v) ==
    CASE v.kind = "bool" -> v.b
      [] v.kind = "none" -> FALSE
      [] v.kind = "list" -> v.items # {}
      [] OTHER -> FALSE

SchemaValues == {PyNone} \cup {PyList(S) : S \in SUBSET Schemas}

AccessAnswers == {PyBool(TRUE), PyBool(FALSE), PyNone, PyRaise}

SchemaAnswers == {PyList(S) : S \in SUBSET Schemas} \cup {PyNone, PyRaise}

\* A row of the Database table.
Database(id, allow, supports, schemas) ==
    [id |-> id, allow_file_upload |-> allow,
     supports_file_upload |-> supports, schemas |-> schemas]

Call(name, database) == [call |-> name, id |-> database.id]

----------------------------------------------------------------------------
\* Collaborators of the filter.

\* security_manager.can_access_database(database)
can_access_database(database) == can_access[database.id]

\* database.get_schema_access_for_file_upload()
get_schema_access_for_file_upload(database) == database.schemas

\* security_manager.get_schemas_accessible_by_user(database, schemas, False):
\* those of the candidate schemas the user can access.
get_schemas_accessible_by_user(database, schemas) ==
    LET a == user_schemas[database.id]
    IN  IF a.kind = "list" THEN PyList(a.items \cap schemas.items) ELSE a

\* The query without its filter.
all_dbs == registry

\* db.session.query(Database).filter_by(allow_file_upload=True).all()
file_enabled_dbs == SelectSeq(registry, LAMBDA d : d.allow_file_upload = TRUE)

----------------------------------------------------------------------------
\* The filter.  An evaluation yields whether it raised, its value, and the
\* collaborator calls it made, in order.

Returned(v, l) == [raised |-> FALSE, value |-> v, log |-> l]

Raised(l) == [raised |-> TRUE, value |-> FALSE, log |-> l]

\* Variants of the access check: database access only; an empty schema list
\* read as "any schema"; a failed lookup swallowed; only False read as denial.
at_least_one_database_only(database) ==
    LET c  == can_access_database(database)
        l1 == <<Call("can_access_database", database)>>
    IN  IF c.kind = "raise" THEN Raised(l1) ELSE Returned(truthy(c), l1)

at_least_one_empty_allows(database) ==
    LET c  == can_access_database(database)
        l1 == <<Call("can_access_database", database)>>
    IN  IF c.kind = "raise" THEN Raised(l1)
        ELSE IF truthy(c) THEN Returned(TRUE, l1)
        ELSE
            LET schemas == get_schema_access_for_file_upload(database)
                l2 == Append(l1, Call("get_schema_access_for_file_upload", database))
            IN  IF ~truthy(schemas) THEN Returned(TRUE, l2)
                ELSE
                    LET a  == get_schemas_accessible_by_user(database, schemas)
                        l3 == Append(l2, Call("get_schemas_accessible_by_user", database))
                    IN  IF a.kind = "raise" THEN Raised(l3) ELSE Returned(truthy(a), l3)

at_least_one_swallows(database) ==
    LET c  == can_access_database(database)
        l1 == <<Call("can_access_database", database)>>
    IN  IF c.kind = "raise" THEN Returned(FALSE, l1)
        ELSE IF truthy(c) THEN Returned(TRUE, l1)
        ELSE
            LET schemas == get_schema_access_for_file_upload(database)
                l2 == Append(l1, Call("get_schema_access_for_file_upload", database))
            IN  IF ~truthy(schemas) THEN Returned(FALSE, l2)
                ELSE
                    LET a  == get_schemas_accessible_by_user(database, schemas)
                        l3 == Append(l2, Call("get_schemas_accessible_by_user", database))
                    IN  IF a.kind = "raise" THEN Returned(FALSE, l3)
                        ELSE Returned(truthy(a), l3)

at_least_one_not_false(database) ==
    LET c  == can_access_database(database)
        l1 == <<Call("can_access_database", database)>>
    IN  IF c.kind = "raise" THEN Raised(l1)
        ELSE IF c # PyBool(FALSE) THEN Returned(TRUE, l1)
        ELSE
            LET schemas == get_schema_access_for_file_upload(database)
                l2 == Append(l1, Call("get_schema_access_for_file_upload", database))
            IN  IF ~truthy(schemas) THEN Returned(FALSE, l2)
                ELSE
                    LET a  == get_schemas_accessible_by_user(database, schemas)
                        l3 == Append(l2, Call("get_schemas_accessible_by_user", database))
                    IN  IF a.kind = "raise" THEN Raised(l3)
                        ELSE Returned(a # PyList({}), l3)

at_least_one_schema_is_allowed(database) ==
    LET c  == can_access_database(database)
        l1 == <<Call("can_access_database", database)>>
    IN  IF c.kind = "raise" THEN Raised(l1)
        ELSE IF truthy(c) THEN Returned(TRUE, l1)
        ELSE
            LET schemas == get_schema_access_for_file_upload(database)
                l2 == Append(l1, Call("get_schema_access_for_file_upload", database))
            IN  IF ~truthy(schemas) THEN Returned(FALSE, l2)
                ELSE
                    LET a  == get_schemas_accessible_by_user(database, schemas)
                        l3 == Append(l2, Call("get_schemas_accessible_by_user", database))
                    IN  IF a.kind = "raise" THEN Raised(l3)
                        ELSE IF truthy(a) THEN Returned(TRUE, l3)
                        ELSE Returned(FALSE, l3)

\* Variant of the engine check that trusts allow_file_upload.
is_engine_always_allowed(database) ==
    Returned(TRUE, <<Call("supports_file_upload", database)>>)

is_engine_allowed_to_file_upl(database) ==
    LET l == <<Call("supports_file_upload", database)>>
    IN  IF database.supports_file_upload THEN Returned(TRUE, l) ELSE Returned(FALSE, l)

\* Variant of the condition with its operands swapped.
keep_engine_first(database) ==
    LET e == is_engine_allowed_to_file_upl(database)
    IN  IF ~e.value THEN e
        ELSE
            LET a == at_least_one_schema_is_allowed(database)
            IN  IF a.raised THEN Raised(e.log \o a.log)
                ELSE Returned(a.value, e.log \o a.log)

\* The condition of the list comprehension for one row:
\* at_least_one_schema_is_allowed(d) and is_engine_allowed_to_file_upl(d).
keep(database) ==
    LET a == at_least_one_schema_is_allowed(database)
    IN  IF a.raised \/ ~a.value THEN a
        ELSE
            LET e == is_engine_allowed_to_file_upl(database)
            IN  Returned(e.value, a.log \o e.log)

\* Variant of the comprehension that builds its list back to front.
RECURSIVE comprehension_prepend(_, _)
comprehension_prepend(dbs, acc) ==
    IF dbs = <<>> THEN acc
    ELSE
        LET d == Head(dbs)
            k == keep(d)
        IN  IF k.raised THEN Raised(acc.log \o k.log)
            ELSE comprehension_prepend(Tail(dbs),
                    Returned(IF k.value THEN <<d>> \o acc.value ELSE acc.value,
                             acc.log \o k.log))

\* The list comprehension over dbs, left to right; acc is what it has built.
RECURSIVE comprehension(_, _)
comprehension(dbs, acc) ==
    IF dbs = <<>> THEN acc
    ELSE
        LET d == Head(dbs)
            k == keep(d)
        IN  IF k.raised THEN Raised(acc.log \o k.log)
            ELSE comprehension(Tail(dbs),
                    Returned(IF k.value THEN Append(acc.value, d) ELSE acc.value,
                             acc.log \o k.log))

NoDbs == [raised |-> FALSE, value |-> <<>>, log |-> <<>>]

\* An exception leaves the caller without a list.
outcome(r) == IF r.raised THEN [raised |-> TRUE, value |-> <<>>, log |-> r.log] ELSE r

file_allowed_dbs == outcome(comprehension(file_enabled_dbs, NoDbs))

\* Variant of a form's query_factory that skips the allow_file_upload filter.
unfiltered_allowed_dbs == outcome(comprehension(registry, NoDbs))

\* query_factory of the database field of each form.
CsvToDatabaseForm_database == file_allowed_dbs

ExcelToDatabaseForm_database == file_allowed_dbs

ColumnarToDatabaseForm_database == file_allowed_dbs

query_factory(f) ==
    CASE f = "csv" -> CsvToDatabaseForm_database
      [] f = "excel" -> ExcelToDatabaseForm_database
      [] OTHER -> ColumnarToDatabaseForm_database

----------------------------------------------------------------------------
\* What a form shows.

NotRendered == [state |-> "none", dbs |-> <<>>]

Offered(r) == [state |-> IF r.raised THEN "raised" ELSE "ok", dbs |-> r.value]

Init ==
    /\ registry = <<>>
    /\ \E b \in BOOLEAN : can_access = [i \in DbIds |-> PyBool(b)]
    /\ user_schemas = [i \in DbIds |-> PyList({})]
    /\ shown = [f \in Forms |-> NotRendered]
    /\ log = <<>>
    /\ changes = 0

\* Variant of the rendering whose query consumes the rows it reads.
Render_consuming(f) ==
    LET r == query_factory(f)
    IN  /\ shown' = [shown EXCEPT ![f] = Offered(r)]
        /\ log' = r.log
        /\ registry' = SelectSeq(registry, LAMBDA d : ~d.allow_file_upload)
        /\ UNCHANGED <<can_access, user_schemas, changes>>

\* A form's database field is rendered: its query_factory runs.
Render(f) ==
    LET r == query_factory(f)
    IN  /\ shown' = [shown EXCEPT ![f] = Offered(r)]
        /\ log' = r.log
        /\ UNCHANGED <<registry, can_access, user_schemas, changes>>

\* Any administrator change makes the lists shown so far out of date.
Changed ==
    /\ changes < MaxChanges
    /\ changes' = changes + 1
    /\ shown' = [f \in Forms |-> NotRendered]
    /\ log' = <<>>

UsedIds == {registry[i].id : i \in 1..Len(registry)}

\* The primary key given to a new row.
NextIds == {i \in DbIds \ UsedIds : \A j \in DbIds \ UsedIds : i <= j}

\* A new row carries a list of upload schemas, possibly empty; EditDatabase can
\* also clear it.
CreateDatabase ==
    \E id \in NextIds, allow \in BOOLEAN, supports \in BOOLEAN,
       schemas \in SchemaValues \ {PyNone} :
        /\ registry' = Append(registry, Database(id, allow, supports, schemas))
        /\ UNCHANGED <<can_access, user_schemas>>
        /\ Changed

DestroyDatabase ==
    \E i \in 1..Len(registry) :
        /\ registry' = SubSeq(registry, 1, i - 1) \o SubSeq(registry, i + 1, Len(registry))
        /\ UNCHANGED <<can_access, user_schemas>>
        /\ Changed

EditDatabase ==
    \E i \in 1..Len(registry),
       allow \in BOOLEAN, supports \in BOOLEAN, schemas \in SchemaValues :
        /\ registry[i] # Database(registry[i].id, allow, supports, schemas)
        /\ registry' = [registry EXCEPT ![i] = Database(registry[i].id, allow, supports, schemas)]
        /\ UNCHANGED <<can_access, user_schemas>>
        /\ Changed

SetDatabaseAccess ==
    \E i \in 1..Len(registry), a \in AccessAnswers :
        /\ can_access[registry[i].id] # a
        /\ can_access' = [can_access EXCEPT ![registry[i].id] = a]
        /\ UNCHANGED <<registry, user_schemas>>
        /\ Changed

SetSchemaAccess ==
    \E i \in 1..Len(registry), a \in SchemaAnswers :
        /\ user_schemas[registry[i].id] # a
        /\ user_schemas' = [user_schemas EXCEPT ![registry[i].id] = a]
        /\ UNCHANGED <<registry, can_access>>
        /\ Changed

Next ==
    \/ \E f \in Forms : Render(f)
    \/ CreateDatabase
    \/ DestroyDatabase
    \/ EditDatabase
    \/ SetDatabaseAccess
    \/ SetSchemaAccess

Spec == Init /\ [][Next]_vars

----------------------------------------------------------------------------
\* Vocabulary of the properties.

Rows == {registry[i] : i \in 1..Len(registry)}

Rendered(f) == shown[f].state # "none"

Listed(f) == shown[f].state = "ok"

InList(d, f) == \E i \in 1..Len(shown[f].dbs) : shown[f].dbs[i].id = d.id

FullAccess(d) == can_access[d.id] = PyBool(TRUE)

Restricted(d) == d.schemas.kind = "list" /\ d.schemas.items # {}

SchemaAccess(d) ==
    /\ user_schemas[d.id].kind = "list"
    /\ user_schemas[d.id].items \cap d.schemas.items # {}

\* A lookup the filter performs for d fails.
LookupFails(d) ==
    \/ can_access[d.id] = PyRaise
    \/ /\ can_access[d.id] \in {PyBool(FALSE), PyNone}
       /\ Restricted(d)
       /\ user_schemas[d.id] = PyRaise

Calls(name, d) == {i \in 1..Len(log) : log[i] = Call(name, d)}

CallsFor(d) == {i \in 1..Len(log) : log[i].id = d.id}

RECURSIVE IsSubseq(_, _)
IsSubseq(s, t) ==
    IF s = <<>> THEN TRUE
    ELSE IF t = <<>> THEN FALSE
    ELSE IF Head(s) = Head(t) THEN IsSubseq(Tail(s), Tail(t))
    ELSE IsSubseq(s, Tail(t))

----------------------------------------------------------------------------
\* C1: when file_allowed_dbs returns a list, a row of the registry query
\* (allow_file_upload set) is in it exactly if the user can access the database,
\* or the database names upload schemas of which the user can access one, and
\* the engine supports file upload.
C1_Eligibility ==
    \A f \in Forms : Listed(f) =>
        \A d \in Rows : d.allow_file_upload =>
            (InList(d, f) <=>
                /\ FullAccess(d) \/ (Restricted(d) /\ SchemaAccess(d))
                /\ d.supports_file_upload)

C1_Witness ==
    \E f \in Forms, d \in Rows :
        /\ Listed(f) /\ InList(d, f)
        /\ ~FullAccess(d) /\ Restricted(d) /\ SchemaAccess(d)

\* C2: a row whose allow_file_upload is false is in no list, whatever the
\* user's access and the engine's support.
C2_AllowFlag ==
    \A f \in Forms, d \in Rows : ~d.allow_file_upload => ~InList(d, f)

C2_Witness ==
    \E f \in Forms, d \in Rows :
        /\ Listed(f) /\ ~d.allow_file_upload
        /\ FullAccess(d) /\ d.supports_file_upload /\ ~InList(d, f)

\* C3: a row whose engine does not support file upload is in no list, even
\* with allow_file_upload set and full access.
C3_EngineFlag ==
    \A f \in Forms, d \in Rows : ~d.supports_file_upload => ~InList(d, f)

C3_Witness ==
    \E f \in Forms, d \in Rows :
        /\ Listed(f) /\ d.allow_file_upload
        /\ FullAccess(d) /\ ~d.supports_file_upload /\ ~InList(d, f)

\* C4: a row the user cannot access as a database and that names no upload
\* schema (empty or absent) is in no list, whatever its two flags.
C4_NoAccessNoSchemas ==
    \A f \in Forms, d \in Rows :
        (can_access[d.id] = PyBool(FALSE) /\ ~Restricted(d)) => ~InList(d, f)

C4_Witness ==
    \E f \in Forms, d \in Rows :
        /\ Listed(f) /\ d.allow_file_upload /\ d.supports_file_upload
        /\ can_access[d.id] = PyBool(FALSE) /\ ~Restricted(d) /\ ~InList(d, f)

\* C5: the list is a subsequence of the rows the registry query returned: same
\* relative order, nothing repeated.
C5_StableFilter ==
    \A f \in Forms : Listed(f) => IsSubseq(shown[f].dbs, file_enabled_dbs)

C5_Witness ==
    \E f \in Forms : Listed(f) /\ Len(shown[f].dbs) >= 2

\* C6 as stated: a failing lookup is absorbed; the call still returns a list,
\* without the failing row and with the other rows filtered as usual.
C6_FailClosedExclusion ==
    \A f \in Forms : Rendered(f) =>
        /\ Listed(f)
        /\ \A d \in Rows : LookupFails(d) => ~InList(d, f)

\* C6 as amended: a lookup of the filter that fails for a row of the registry
\* query is not caught; file_allowed_dbs raises, returns no list, and does so
\* in no other case.
C6_FailurePropagates ==
    \A f \in Forms : Rendered(f) =>
        /\ shown[f].state = "raised" <=>
               \E d \in Rows : d.allow_file_upload /\ LookupFails(d)
        /\ shown[f].state = "raised" => shown[f].dbs = <<>>

C6_Witness ==
    \E f \in Forms, d \in Rows, e \in Rows :
        /\ shown[f].state = "raised"
        /\ d.allow_file_upload /\ LookupFails(d)
        /\ e.allow_file_upload /\ e.supports_file_upload /\ FullAccess(e)

\* C7: None from can_access_database counts as False and None from
\* get_schemas_accessible_by_user as no schema: a row with only None answers is
\* in no list, and None for the database still lets schema access decide.
C7_NoneIsNoAccess ==
    \A f \in Forms : Listed(f) =>
        \A d \in Rows :
            /\ (can_access[d.id] = PyNone /\ user_schemas[d.id] = PyNone) => ~InList(d, f)
            /\ (can_access[d.id] = PyBool(FALSE) /\ user_schemas[d.id] = PyNone)
                   => ~InList(d, f)
            /\ (can_access[d.id] = PyNone /\ d.allow_file_upload /\ d.supports_file_upload)
                   => (InList(d, f) <=> (Restricted(d) /\ SchemaAccess(d)))

C7_Witness ==
    \E f \in Forms, d \in Rows :
        /\ Listed(f) /\ d.allow_file_upload /\ d.supports_file_upload /\ Restricted(d)
        /\ can_access[d.id] = PyNone /\ user_schemas[d.id] = PyNone /\ ~InList(d, f)

\* C8: a call of file_allowed_dbs leaves the Database table and the security
\* manager's answers as they were: they change only in steps that are counted
\* as administrator changes.
C8_ReadOnly ==
    [][changes' = changes => UNCHANGED <<registry, can_access, user_schemas>>]_vars

C8_Witness ==
    \E f \in Forms, d \in Rows : Listed(f) /\ InList(d, f) /\ changes > 0

\* C9: per row the calls are can_access_database, then (only when that was not
\* true) get_schema_access_for_file_upload, then (only when that list is not
\* empty) get_schemas_accessible_by_user, then (only when access was granted)
\* supports_file_upload; so full access makes a row eligible even when it names
\* schemas the user cannot access.
C9_ShortCircuit ==
    (\E f \in Forms : Rendered(f)) =>
        \A d \in Rows :
            /\ \A n \in {"can_access_database", "get_schema_access_for_file_upload",
                         "get_schemas_accessible_by_user", "supports_file_upload"} :
                   Cardinality(Calls(n, d)) <= 1
            /\ \A i \in CallsFor(d) :
                   \E j \in Calls("can_access_database", d) : j <= i
            /\ \A i \in Calls("get_schema_access_for_file_upload", d) :
                   /\ ~FullAccess(d)
                   /\ Calls("can_access_database", d) = {i - 1}
            /\ \A i \in Calls("get_schemas_accessible_by_user", d) :
                   /\ Restricted(d)
                   /\ Calls("get_schema_access_for_file_upload", d) = {i - 1}
            /\ \A i \in Calls("supports_file_upload", d) :
                   /\ FullAccess(d) \/ (Restricted(d) /\ SchemaAccess(d))
                   /\ \A j \in CallsFor(d) : j <= i
                   /\ i - 1 \in CallsFor(d)
            /\ \A f \in Forms :
                   (Listed(f) /\ FullAccess(d) /\ d.allow_file_upload
                        /\ d.supports_file_upload) => InList(d, f)

C9_Witness ==
    \E f \in Forms, d \in Rows :
        /\ Listed(f) /\ InList(d, f)
        /\ FullAccess(d) /\ Restricted(d) /\ ~SchemaAccess(d)
        /\ Calls("get_schema_access_for_file_upload", d) = {}
        /\ Calls("supports_file_upload", d) # {}

====
